---- MODULE Spec2Model ----
(***************************************************************************)
(* Model of CabDriverEnvironment (src/cab_environment.py): the action and  *)
(* state spaces, the request sampler, the reward model, the transition     *)
(* (get_next_state) and the clock arithmetic (calc_revised_time_day).      *)
(*                                                                         *)
(* A state is <<location, hour, day>>, an action is <<pickup, drop>>.      *)
(* Python lists are 0-based: element k of a Python list is element k+1 of  *)
(* the sequence that models it; the travel-time table is a function over   *)
(* 0-based indices, as numpy indexes it.  Travel times are whole hours, so *)
(* int() leaves every value it is applied to unchanged.  week_clock is the *)
(* caller's own account of time: the hour of the week of the initial state *)
(* plus every elapsed time get_next_state has returned, modulo the week.   *)
(***************************************************************************)
EXTENDS Integers, Sequences, FiniteSets, TLC

VARIABLES hyperparameters, action_space, time_matrix, state, call, ret, week_clock

vars == <<hyperparameters, action_space, time_matrix, state, call, ret, week_clock>>

\* ---- bounds of the model ------------------------------------------------
MaxLocations == 3
MaxTravel == 25
MaxPoisson == 16
MaxDelta == 24
MaxRequestLocations == 2

\* ---- program constants --------------------------------------------------
HoursInDay == 24
DaysInWeek == 7
DefaultCost == 5
DefaultReward == 9
MaxRequests == 15

NoRide == <<0, 0>>

distribution_lambda == <<2, 12, 4, 7, 8>>

\* ---- construction -------------------------------------------------------
initialize_hyperparameters(locations, cost, reward) ==
    [m |-> locations, t |-> HoursInDay, d |-> DaysInWeek, C |-> cost, R |-> reward]

RECURSIVE action_row(_, _, _)
action_row(i, j, number_locations) ==
    IF j > number_locations THEN <<>>
    ELSE (IF i # j THEN << <<i, j>> >> ELSE <<>>) \o action_row(i, j + 1, number_locations)

RECURSIVE action_rows(_, _)
action_rows(i, number_locations) ==
    IF i > number_locations THEN <<>>
    ELSE action_row(i, 1, number_locations) \o action_rows(i + 1, number_locations)

initialize_action_space_nofilter(hp) ==
    Append([k \in 1..(hp.m * hp.m) |-> <<((k - 1) \div hp.m) + 1, ((k - 1) % hp.m) + 1>>], NoRide)

initialize_action_space(hp) ==
    Append(action_rows(1, hp.m), NoRide)

\* itertools.product(locations, hours, days): the last axis varies fastest
initialize_state_space(hp) ==
    [k \in 1..(hp.m * hp.t * hp.d) |->
        <<((k - 1) \div (hp.t * hp.d)) + 1, ((k - 1) \div hp.d) % hp.t, (k - 1) % hp.d>>]

\* the (location, hour, day) triples set_init_state can draw, one axis at a time
set_init_state(hp) ==
    {<<random_location, current_hour, current_day>> :
        random_location \in 1..hp.m, current_hour \in 0..(hp.t - 1), current_day \in 0..(hp.d - 1)}

\* ---- the travel-time table (loaded from time_matrix.npy) ----------------
\* numpy's a[k] on an axis of length n: k in -n..n-1 is accepted, a negative k
\* counts from the end, anything else raises IndexError
AxisLen(a) == Cardinality(DOMAIN a)

IndexInBounds(a, k) == (-AxisLen(a) <= k) /\ (k < AxisLen(a))

NpItem(a, k) == IF k < 0 THEN a[k + AxisLen(a)] ELSE a[k]

time_matrix_raises(tm, i, j, h, d) ==
    \/ ~IndexInBounds(tm, i)
    \/ ~IndexInBounds(NpItem(tm, i), j)
    \/ ~IndexInBounds(NpItem(NpItem(tm, i), j), h)
    \/ ~IndexInBounds(NpItem(NpItem(NpItem(tm, i), j), h), d)

time_matrix_item(tm, i, j, h, d) == NpItem(NpItem(NpItem(NpItem(tm, i), j), h), d)

\* tables the model loads: entries are whole hours in 0..limit-1.  The file
\* is loaded whatever the number of locations is, so a table may cover more
\* locations than the environment has.
TravelTime(limit, i, j, h, d) == (3 * i + 5 * j + 7 * h + 11 * d) % limit

TimeMatrix(width, limit) ==
    [i \in 0..(width - 1) |-> [j \in 0..(width - 1) |-> [h \in 0..(HoursInDay - 1) |->
        [d \in 0..(DaysInWeek - 1) |-> TravelTime(limit, i, j, h, d)]]]]

TableLimits == {24, 25, MaxTravel + 1}

TableWidths(locations) == {locations, locations + 1}

\* self.state_space, set once by __init__ and never written
state_space == initialize_state_space(hyperparameters)

\* ---- clock --------------------------------------------------------------
calc_revised_time_day_nodaywrap(time_of_day, day_of_week) ==
    IF time_of_day >= 24 THEN <<time_of_day - 24, day_of_week + 1>>
    ELSE <<time_of_day, day_of_week>>

calc_revised_time_day_gt(time_of_day, day_of_week) ==
    IF time_of_day > 24
    THEN <<time_of_day - 24, IF day_of_week = 6 THEN 0 ELSE day_of_week + 1>>
    ELSE <<time_of_day, day_of_week>>

calc_revised_time_day_noadvance(time_of_day, day_of_week) ==
    IF time_of_day >= 24 THEN <<time_of_day - 24, day_of_week>>
    ELSE <<time_of_day, day_of_week>>

calc_revised_time_day(time_of_day, day_of_week) ==
    IF time_of_day >= 24
    THEN <<time_of_day - 24, IF day_of_week = 6 THEN 0 ELSE day_of_week + 1>>
    ELSE <<time_of_day, day_of_week>>

\* ---- trip times ---------------------------------------------------------
\* Every result carries: raised (an IndexError left the call) and reads (the
\* table cells the call indexed, in order, as <<from, to, hour, day>> with
\* 1-based locations, the failing one included).
Cell(location_a, location_b, hour, day) == <<location_a, location_b, hour, day>>

TripRaised(reads) ==
    [raised |-> TRUE, reads |-> reads, total_trip_time |-> 0, travel_time_to_customer |-> 0,
     time_at_customer_location |-> 0, day_at_customer_location |-> 0]

TripTimes(reads, trip, to_customer, hour_at_customer, day_at_customer) ==
    [raised |-> FALSE, reads |-> reads, total_trip_time |-> trip,
     travel_time_to_customer |-> to_customer,
     time_at_customer_location |-> hour_at_customer,
     day_at_customer_location |-> day_at_customer]

get_same_pickup_time_swapped(tm, st, action) ==
    LET current_hour == st[2]
        current_day == st[3]
        location_from == action[1]
        location_to == action[2]
        reads == << Cell(location_to, location_from, current_hour, current_day) >>
    IN  IF time_matrix_raises(tm, location_to - 1, location_from - 1, current_hour, current_day)
        THEN TripRaised(reads)
        ELSE TripTimes(reads,
                 time_matrix_item(tm, location_to - 1, location_from - 1, current_hour, current_day),
                 0, current_hour, current_day)

get_same_pickup_time(tm, st, action) ==
    LET current_hour == st[2]
        current_day == st[3]
        location_from == action[1]
        location_to == action[2]
        reads == << Cell(location_from, location_to, current_hour, current_day) >>
    IN  IF time_matrix_raises(tm, location_from - 1, location_to - 1, current_hour, current_day)
        THEN TripRaised(reads)
        ELSE TripTimes(reads,
                 time_matrix_item(tm, location_from - 1, location_to - 1, current_hour, current_day),
                 0, current_hour, current_day)

get_different_pickup_time_request_clock(tm, st, action) ==
    LET current_location == st[1]
        current_hour == st[2]
        current_day == st[3]
        location_from == action[1]
        location_to == action[2]
        reads1 == << Cell(current_location, location_from, current_hour, current_day) >>
    IN  IF time_matrix_raises(tm, current_location - 1, location_from - 1, current_hour, current_day)
        THEN TripRaised(reads1)
        ELSE
          LET travel_time_to_customer ==
                  time_matrix_item(tm, current_location - 1, location_from - 1, current_hour, current_day)
              revised == calc_revised_time_day(current_hour + travel_time_to_customer, current_day)
              reads2 == Append(reads1, Cell(location_from, location_to, current_hour, current_day))
          IN  IF time_matrix_raises(tm, location_from - 1, location_to - 1, current_hour, current_day)
              THEN TripRaised(reads2)
              ELSE TripTimes(reads2,
                       time_matrix_item(tm, location_from - 1, location_to - 1, current_hour, current_day),
                       travel_time_to_customer, revised[1], revised[2])

get_different_pickup_time_reversed(tm, st, action) ==
    LET current_location == st[1]
        current_hour == st[2]
        current_day == st[3]
        location_from == action[1]
        location_to == action[2]
        reads1 == << Cell(location_from, current_location, current_hour, current_day) >>
    IN  IF time_matrix_raises(tm, location_from - 1, current_location - 1, current_hour, current_day)
        THEN TripRaised(reads1)
        ELSE
          LET travel_time_to_customer ==
                  time_matrix_item(tm, location_from - 1, current_location - 1, current_hour, current_day)
              revised == calc_revised_time_day(current_hour + travel_time_to_customer, current_day)
              time_at_customer_location == revised[1]
              day_at_customer_location == revised[2]
              reads2 == Append(reads1, Cell(location_from, location_to,
                                            time_at_customer_location, day_at_customer_location))
          IN  IF time_matrix_raises(tm, location_from - 1, location_to - 1,
                                    time_at_customer_location, day_at_customer_location)
              THEN TripRaised(reads2)
              ELSE TripTimes(reads2,
                       time_matrix_item(tm, location_from - 1, location_to - 1,
                                        time_at_customer_location, day_at_customer_location),
                       travel_time_to_customer, time_at_customer_location, day_at_customer_location)

get_different_pickup_time(tm, st, action) ==
    LET current_location == st[1]
        current_hour == st[2]
        current_day == st[3]
        location_from == action[1]
        location_to == action[2]
        reads1 == << Cell(current_location, location_from, current_hour, current_day) >>
    IN  IF time_matrix_raises(tm, current_location - 1, location_from - 1, current_hour, current_day)
        THEN TripRaised(reads1)
        ELSE
          LET travel_time_to_customer ==
                  time_matrix_item(tm, current_location - 1, location_from - 1, current_hour, current_day)
              revised == calc_revised_time_day(current_hour + travel_time_to_customer, current_day)
              time_at_customer_location == revised[1]
              day_at_customer_location == revised[2]
              reads2 == Append(reads1, Cell(location_from, location_to,
                                            time_at_customer_location, day_at_customer_location))
          IN  IF time_matrix_raises(tm, location_from - 1, location_to - 1,
                                    time_at_customer_location, day_at_customer_location)
              THEN TripRaised(reads2)
              ELSE TripTimes(reads2,
                       time_matrix_item(tm, location_from - 1, location_to - 1,
                                        time_at_customer_location, day_at_customer_location),
                       travel_time_to_customer, time_at_customer_location, day_at_customer_location)

\* ---- reward -------------------------------------------------------------
RewardRaised(reads) == [raised |-> TRUE, reads |-> reads, reward |-> 0]

Reward(reads, value) == [raised |-> FALSE, reads |-> reads, reward |-> value]

get_rewards_per_ride_trip_cost_only(hp, tm, st, action) ==
    LET current_location == st[1]
        location_from == action[1]
    IN  IF action = NoRide THEN Reward(<<>>, -hp.C)
        ELSE
          LET times == IF current_location = location_from
                       THEN get_same_pickup_time(tm, st, action)
                       ELSE get_different_pickup_time(tm, st, action)
          IN  IF times.raised THEN RewardRaised(times.reads)
              ELSE Reward(times.reads,
                          hp.R * times.total_trip_time - (hp.C * times.total_trip_time))

get_rewards_per_ride(hp, tm, st, action) ==
    LET current_location == st[1]
        location_from == action[1]
    IN  IF action = NoRide THEN Reward(<<>>, -hp.C)
        ELSE
          LET times == IF current_location = location_from
                       THEN get_same_pickup_time(tm, st, action)
                       ELSE get_different_pickup_time(tm, st, action)
          IN  IF times.raised THEN RewardRaised(times.reads)
              ELSE Reward(times.reads,
                          hp.R * times.total_trip_time
                          - (hp.C * (times.total_trip_time + times.travel_time_to_customer)))

\* ---- transition ---------------------------------------------------------
StepRaised(reads) ==
    [raised |-> TRUE, reads |-> reads, next_state |-> <<0, 0, 0>>, reward |-> 0, elapsed |-> 0]

StepResult(reads, next_state, total_rewards, total_ride_time) ==
    [raised |-> FALSE, reads |-> reads, next_state |-> next_state,
     reward |-> total_rewards, elapsed |-> total_ride_time]

get_next_state_trip_elapsed(hp, tm, st, action) ==
    LET current_location == st[1]
        current_hour == st[2]
        current_day == st[3]
        location_from == action[1]
        location_to == action[2]
        total_rewards == get_rewards_per_ride(hp, tm, st, action)
    IN  IF total_rewards.raised THEN StepRaised(total_rewards.reads)
        ELSE IF action = NoRide
        THEN LET revised == calc_revised_time_day(current_hour + 1, current_day)
             IN  StepResult(total_rewards.reads,
                            <<current_location, revised[1], revised[2]>>,
                            total_rewards.reward, 1)
        ELSE IF current_location = location_from
        THEN LET times == get_same_pickup_time(tm, st, action)
                 revised == calc_revised_time_day(current_hour + times.total_trip_time, current_day)
             IN  IF times.raised THEN StepRaised(total_rewards.reads \o times.reads)
                 ELSE StepResult(total_rewards.reads \o times.reads,
                                 <<location_to, revised[1], revised[2]>>,
                                 total_rewards.reward, times.total_trip_time)
        ELSE LET times == get_different_pickup_time(tm, st, action)
                 revised == calc_revised_time_day(
                                times.time_at_customer_location + times.total_trip_time,
                                times.day_at_customer_location)
             IN  IF times.raised THEN StepRaised(total_rewards.reads \o times.reads)
                 ELSE StepResult(total_rewards.reads \o times.reads,
                                 <<location_to, revised[1], revised[2]>>,
                                 total_rewards.reward, times.total_trip_time)

get_next_state(hp, tm, st, action) ==
    LET current_location == st[1]
        current_hour == st[2]
        current_day == st[3]
        location_from == action[1]
        location_to == action[2]
        total_rewards == get_rewards_per_ride(hp, tm, st, action)
    IN  IF total_rewards.raised THEN StepRaised(total_rewards.reads)
        ELSE IF action = NoRide
        THEN LET revised == calc_revised_time_day(current_hour + 1, current_day)
             IN  StepResult(total_rewards.reads,
                            <<current_location, revised[1], revised[2]>>,
                            total_rewards.reward, 1)
        ELSE IF current_location = location_from
        THEN LET times == get_same_pickup_time(tm, st, action)
                 revised == calc_revised_time_day(current_hour + times.total_trip_time, current_day)
             IN  IF times.raised THEN StepRaised(total_rewards.reads \o times.reads)
                 ELSE StepResult(total_rewards.reads \o times.reads,
                                 <<location_to, revised[1], revised[2]>>,
                                 total_rewards.reward, times.total_trip_time)
        ELSE LET times == get_different_pickup_time(tm, st, action)
                 revised == calc_revised_time_day(
                                times.time_at_customer_location + times.total_trip_time,
                                times.day_at_customer_location)
             IN  IF times.raised THEN StepRaised(total_rewards.reads \o times.reads)
                 ELSE StepResult(total_rewards.reads \o times.reads,
                                 <<location_to, revised[1], revised[2]>>,
                                 total_rewards.reward,
                                 times.total_trip_time + times.travel_time_to_customer)

\* ---- request sampling ---------------------------------------------------
\* poisson_sample is the value np.random.poisson returns; uniform_stream is the
\* stream of draws np.random.choice consumes, one per requested element
ListRaises(list, k) == ~((-Len(list) <= k) /\ (k < Len(list)))

ListItem(list, k) == IF k < 0 THEN list[k + Len(list) + 1] ELSE list[k + 1]

\* np.random.choice(range(population_size), size): an empty population is a
\* ValueError unless no sample is taken
RandomChoiceRaises(population_size, size) == population_size = 0 /\ size # 0

RandomChoice(population_size, size, uniform_stream) ==
    [i \in 1..size |-> uniform_stream[i] % population_size]

RequestsRaised(error) ==
    [raised |-> TRUE, error |-> error, allowed_action_index |-> <<>>, allowed_actions |-> <<>>]

get_requests_per_location(asp, current_state, poisson_sample, uniform_stream) ==
    LET current_location == current_state[1]
    IN  IF ListRaises(distribution_lambda, current_location - 1)
        THEN RequestsRaised("IndexError")
        ELSE
          LET total_possible_requests ==
                  IF poisson_sample > MaxRequests THEN MaxRequests ELSE poisson_sample
              total_action_space == SubSeq(asp, 1, Len(asp) - 1)
              allowed_action_index ==
                  RandomChoice(Len(total_action_space), total_possible_requests, uniform_stream)
              allowed_actions ==
                  [i \in 1..Len(allowed_action_index) |->
                      ListItem(total_action_space, allowed_action_index[i])]
          IN  IF RandomChoiceRaises(Len(total_action_space), total_possible_requests)
              THEN RequestsRaised("ValueError")
              ELSE [raised |-> FALSE, error |-> "",
                    allowed_action_index |-> allowed_action_index,
                    allowed_actions |-> Append(allowed_actions, NoRide)]

\* ---- the environment and its caller -------------------------------------
Costs == {DefaultCost}

Revenues == {DefaultReward}

Range(seq) == {seq[k] : k \in DOMAIN seq}

NoCall == [op |-> "init", state |-> <<0, 0, 0>>, action |-> NoRide, extra |-> <<>>]

NoResult == [raised |-> FALSE]

\* the hour of the week a state's clock shows, as the caller counts it
HoursInWeek == HoursInDay * DaysInWeek

HourOfWeek(s) == (HoursInDay * s[3] + s[2]) % HoursInWeek

\* the draws np.random.choice can make in a call: none when the call raises
\* before drawing (a location past the rate table, an empty population), else
\* one index of the population per requested element, each of them any index
UniformStreams(asp, current_state, poisson_sample) ==
    IF ListRaises(distribution_lambda, current_state[1] - 1) \/ Len(asp) - 1 = 0
    THEN {<<>>}
    ELSE [1..(IF poisson_sample > MaxRequests THEN MaxRequests ELSE poisson_sample) ->
             0..(Len(asp) - 2)]

\* __init__: hyperparameters, spaces, a random initial state, the loaded table
Init ==
    \E locations \in 1..MaxLocations, cost \in Costs, reward \in Revenues, limit \in TableLimits :
      \E width \in TableWidths(locations) :
        /\ hyperparameters = initialize_hyperparameters(locations, cost, reward)
        /\ action_space = initialize_action_space(hyperparameters)
        /\ time_matrix = TimeMatrix(width, limit)
        /\ state \in set_init_state(hyperparameters)
        /\ week_clock = HourOfWeek(state)
        /\ call = NoCall
        /\ ret = NoResult

\* the caller takes one step of the environment and keeps the next state
Step(action) ==
    /\ call' = [op |-> "get_next_state", state |-> state, action |-> action, extra |-> <<>>]
    /\ ret' = get_next_state(hyperparameters, time_matrix, state, action)
    /\ state' = IF ret'.raised THEN state ELSE ret'.next_state
    /\ week_clock' = IF ret'.raised THEN week_clock
                     ELSE (week_clock + ret'.elapsed) % HoursInWeek
    /\ UNCHANGED <<hyperparameters, action_space, time_matrix>>

\* the caller asks for the reward of an action without stepping
RewardQuery(action) ==
    /\ call' = [op |-> "get_rewards_per_ride", state |-> state, action |-> action, extra |-> <<>>]
    /\ ret' = get_rewards_per_ride(hyperparameters, time_matrix, state, action)
    /\ UNCHANGED <<hyperparameters, action_space, time_matrix, state, week_clock>>

\* the caller asks for the trip times of a ride whose pickup is elsewhere
DifferentPickupQuery(action) ==
    /\ action # NoRide
    /\ action[1] # state[1]
    /\ call' = [op |-> "get_different_pickup_time", state |-> state, action |-> action,
                extra |-> <<>>]
    /\ ret' = get_different_pickup_time(time_matrix, state, action)
    /\ UNCHANGED <<hyperparameters, action_space, time_matrix, state, week_clock>>

\* the caller asks for the requests visible in the current state
Requests(poisson_sample, uniform_stream) ==
    /\ call' = [op |-> "get_requests_per_location", state |-> state, action |-> NoRide,
                extra |-> <<poisson_sample>>]
    /\ ret' = get_requests_per_location(action_space, state, poisson_sample, uniform_stream)
    /\ UNCHANGED <<hyperparameters, action_space, time_matrix, state, week_clock>>

\* the clock of the current state advanced by delta hours
Advance(delta) ==
    /\ call' = [op |-> "calc_revised_time_day", state |-> state, action |-> NoRide,
                extra |-> <<delta>>]
    /\ ret' = [raised |-> FALSE, revised |-> calc_revised_time_day(state[2] + delta, state[3])]
    /\ UNCHANGED <<hyperparameters, action_space, time_matrix, state, week_clock>>

\* the caller asks for the trip time of a ride whose pickup is where the cab is
SamePickupQuery(action) ==
    /\ action # NoRide
    /\ action[1] = state[1]
    /\ call' = [op |-> "get_same_pickup_time", state |-> state, action |-> action,
                extra |-> <<>>]
    /\ ret' = get_same_pickup_time(time_matrix, state, action)
    /\ UNCHANGED <<hyperparameters, action_space, time_matrix, state, week_clock>>

\* a driver's trajectory: one step after another
Next == \E action \in Range(action_space) : Step(action)

Spec == Init /\ [][Next]_vars

\* single calls of the methods on a freshly constructed environment
NoCallYet == call.op = "init"

NextCall ==
    \/ \E action \in Range(action_space) : NoCallYet /\ Step(action)
    \/ \E action \in Range(action_space) : NoCallYet /\ RewardQuery(action)
    \/ \E action \in Range(action_space) : NoCallYet /\ SamePickupQuery(action)
    \/ \E action \in Range(action_space) : NoCallYet /\ DifferentPickupQuery(action)
    \/ \E delta \in 0..MaxDelta : NoCallYet /\ Advance(delta)

SpecCall == Init /\ [][NextCall]_vars

\* single calls of the request sampler, on any Poisson draw up to MaxPoisson
\* and any indices np.random.choice can return: in the first and last hour of
\* the first and last day at every location the rate table covers or, when
\* there are more locations than rates, at the locations past the rate table
RequestStates(hp) ==
    {<<location, hour, day>> :
        location \in (IF hp.m > Len(distribution_lambda)
                      THEN (Len(distribution_lambda) + 1)..hp.m ELSE 1..hp.m),
        hour \in {0, hp.t - 1}, day \in {0, hp.d - 1}}

\* the numbers of locations of these calls include one more than the rate
\* table has entries; the sampler never reads the travel times
RequestLocations == 1..MaxRequestLocations \union {Len(distribution_lambda) + 1}

InitRequest ==
    \E locations \in RequestLocations :
        /\ hyperparameters = initialize_hyperparameters(locations, DefaultCost, DefaultReward)
        /\ action_space = initialize_action_space(hyperparameters)
        /\ time_matrix = TimeMatrix(1, HoursInDay)
        /\ state \in RequestStates(hyperparameters)
        /\ week_clock = HourOfWeek(state)
        /\ call = NoCall
        /\ ret = NoResult

NextRequest ==
    /\ NoCallYet
    /\ \E poisson_sample \in 0..MaxPoisson :
           \E uniform_stream \in UniformStreams(action_space, state, poisson_sample) :
               Requests(poisson_sample, uniform_stream)

SpecRequest == InitRequest /\ [][NextRequest]_vars

\* single calls with arguments the caller did not validate: locations 0..m+1,
\* hours -1..24, days -1..7, and any pair of such locations as the action, on a
\* table that covers m or m+1 locations
RawLocations(hp) == 0..(hp.m + 1)

RawStates(hp) ==
    {<<location, hour, day>> :
        location \in RawLocations(hp), hour \in (-1)..hp.t, day \in (-1)..hp.d}

RawActions(hp) == {<<pickup, drop>> : pickup \in RawLocations(hp), drop \in RawLocations(hp)}

InitRaw ==
    /\ hyperparameters = initialize_hyperparameters(MaxLocations, DefaultCost, DefaultReward)
    /\ action_space = initialize_action_space(hyperparameters)
    /\ \E width \in TableWidths(MaxLocations) : time_matrix = TimeMatrix(width, 12)
    /\ state \in RawStates(hyperparameters)
    /\ week_clock = HourOfWeek(state)
    /\ call = NoCall
    /\ ret = NoResult

NextRaw ==
    \/ \E action \in RawActions(hyperparameters) : NoCallYet /\ Step(action)
    \/ \E action \in RawActions(hyperparameters) : NoCallYet /\ RewardQuery(action)
    \/ \E action \in RawActions(hyperparameters) : NoCallYet /\ SamePickupQuery(action)
    \/ \E action \in RawActions(hyperparameters) : NoCallYet /\ DifferentPickupQuery(action)

SpecRaw == InitRaw /\ [][NextRaw]_vars

\* ==== properties =========================================================
\* what the properties are stated with: the ranges of section 3 of the design,
\* the table entry of a ride, and the clock rule "add the hours, and past 23
\* take 24 off and move to the next day of the week"
ValidState(s) ==
    /\ s[1] \in 1..hyperparameters.m
    /\ s[2] \in 0..(HoursInDay - 1)
    /\ s[3] \in 0..(DaysInWeek - 1)

InStateSpace(s) ==
    LET space == state_space
    IN  \E k \in DOMAIN space : space[k] = s

InActionSpace(a) == \E k \in DOMAIN action_space : action_space[k] = a

Entry(location_a, location_b, hour, day) == time_matrix[location_a - 1][location_b - 1][hour][day]

EntriesAtMost(most) ==
    \A i \in DOMAIN time_matrix : \A j \in DOMAIN time_matrix[i] :
        \A h \in DOMAIN time_matrix[i][j] : \A d \in DOMAIN time_matrix[i][j][h] :
            time_matrix[i][j][h][d] <= most

ClockAfter(hour, day, delta) ==
    IF hour + delta >= 24 THEN <<hour + delta - 24, (day + 1) % 7>> ELSE <<hour + delta, day>>

\* a step, or a reward query, made in a valid state with an action of the action space
ValidCall(op) == call.op = op /\ ValidState(call.state) /\ InActionSpace(call.action)

SameLocationCall(op) ==
    ValidCall(op) /\ call.action # NoRide /\ call.state[1] = call.action[1]

OtherLocationCall(op) ==
    ValidCall(op) /\ call.action # NoRide /\ call.state[1] # call.action[1]

\* the deadhead time of the call and the clock at which the cab reaches the pickup
Deadhead == Entry(call.state[1], call.action[1], call.state[2], call.state[3])

ArrivalClock == ClockAfter(call.state[2], call.state[3], Deadhead)

\* the arrival clock is an hour of the day, so the table has the trip's entry
ArrivalInTable == ArrivalClock[1] <= HoursInDay - 1

TripAtArrival == Entry(call.action[1], call.action[2], ArrivalClock[1], ArrivalClock[2])

TripAtRequest == Entry(call.action[1], call.action[2], call.state[2], call.state[3])

\* C1 (as claimed): with any table of non-negative whole hours, the state a
\* driver holds after any number of steps has its location in 1..m, its hour in
\* 0..23 and its day in 0..6, i.e. it is a member of the state space.
C1_StateAlwaysInStateSpace == ValidState(state) /\ InStateSpace(state)

\* C1 (amended): the same, for tables whose entries are at most 24 hours.
C1_StateInStateSpaceShortTrips ==
    (ValidState(state) /\ InStateSpace(state)) \/ ~EntriesAtMost(HoursInDay)

C1_Witness ==
    /\ call.op = "get_next_state"
    /\ ~ret.raised
    /\ EntriesAtMost(HoursInDay)
    /\ call.action # NoRide
    /\ call.state[3] = 6
    /\ state = ret.next_state
    /\ state[3] = 0
    /\ state[1] # call.state[1]

\* C2: a step whose pickup is not the cab's location reads the deadhead time d
\* at the request clock, reads the trip time t at the clock advanced by d, ends
\* in <<drop, clock advanced by d and then by t>> and reports t + d elapsed.
C2_DifferentLocationPickup ==
    (OtherLocationCall("get_next_state") /\ ArrivalInTable) =>
        /\ ~ret.raised
        /\ ret.next_state =
               <<call.action[2]>> \o ClockAfter(ArrivalClock[1], ArrivalClock[2], TripAtArrival)
        /\ ret.elapsed = TripAtArrival + Deadhead
        /\ Range(ret.reads) =
               {Cell(call.state[1], call.action[1], call.state[2], call.state[3]),
                Cell(call.action[1], call.action[2], ArrivalClock[1], ArrivalClock[2])}

C2_Witness ==
    /\ OtherLocationCall("get_next_state")
    /\ ArrivalInTable
    /\ ~ret.raised
    /\ Deadhead > 0
    /\ ArrivalClock[2] # call.state[3]
    /\ TripAtArrival # TripAtRequest
    /\ ret.elapsed = TripAtArrival + Deadhead

\* C3: the reward is -C for the no-ride action and R*t - C*(t + d) for a ride,
\* with d = 0 when the pickup is the cab's location; a step returns the same
\* value as the reward query.
ExpectedReward ==
    IF call.action = NoRide THEN -hyperparameters.C
    ELSE IF call.state[1] = call.action[1]
    THEN hyperparameters.R * TripAtRequest - hyperparameters.C * (TripAtRequest + 0)
    ELSE hyperparameters.R * TripAtArrival - hyperparameters.C * (TripAtArrival + Deadhead)

RewardDefined ==
    call.action = NoRide \/ call.state[1] = call.action[1] \/ ArrivalInTable

C3_RewardValue ==
    /\ (ValidCall("get_rewards_per_ride") /\ RewardDefined) =>
           (~ret.raised /\ ret.reward = ExpectedReward)
    /\ (ValidCall("get_next_state") /\ RewardDefined) =>
           (~ret.raised /\ ret.reward = ExpectedReward)

C3_Witness ==
    /\ OtherLocationCall("get_rewards_per_ride")
    /\ ArrivalInTable
    /\ Deadhead > 0
    /\ TripAtArrival > 0
    /\ ~ret.raised
    /\ ret.reward = ExpectedReward
    /\ ret.reward < 0

\* C4: the no-ride step keeps the location, moves the clock one hour on (23
\* wraps to 0 of the next day, day 6 to day 0), reports one hour elapsed and a
\* reward of -C, and reads no cell of the table.
C4_IdleStep ==
    (ValidCall("get_next_state") /\ call.action = NoRide) =>
        /\ ~ret.raised
        /\ ret.next_state =
               <<call.state[1],
                 IF call.state[2] = 23 THEN 0 ELSE call.state[2] + 1,
                 IF call.state[2] = 23 THEN (call.state[3] + 1) % 7 ELSE call.state[3]>>
        /\ ret.elapsed = 1
        /\ ret.reward = -hyperparameters.C
        /\ ret.reads = <<>>

C4_Witness ==
    /\ ValidCall("get_next_state")
    /\ call.action = NoRide
    /\ call.state[2] = 23
    /\ call.state[3] = 6
    /\ ret.next_state = <<call.state[1], 0, 0>>
    /\ state = ret.next_state

\* C5: a step whose pickup is the cab's location reads the trip time t at the
\* request clock and nothing else, ends in <<drop, clock advanced by t>> and
\* reports t elapsed.
C5_SameLocationPickup ==
    SameLocationCall("get_next_state") =>
        /\ ~ret.raised
        /\ ret.next_state =
               <<call.action[2]>> \o ClockAfter(call.state[2], call.state[3], TripAtRequest)
        /\ ret.elapsed = TripAtRequest
        /\ Range(ret.reads) =
               {Cell(call.action[1], call.action[2], call.state[2], call.state[3])}

C5_Witness ==
    /\ SameLocationCall("get_next_state")
    /\ ~ret.raised
    /\ TripAtRequest > 0
    /\ call.state[2] + TripAtRequest >= 24
    /\ ret.next_state[3] # call.state[3]
    /\ ret.elapsed = TripAtRequest

\* C6 (as claimed, from the test of get_different_pickup_time): for a state whose
\* location is not the pickup, travel_time_to_customer is the entry at
\* (location, pickup, hour, day) and total_trip_time is the entry at
\* (pickup, drop, hour, day), the state's own hour and day.
C6_TripTimeAtRequestClock ==
    (OtherLocationCall("get_different_pickup_time") /\ ArrivalInTable) =>
        /\ ~ret.raised
        /\ ret.travel_time_to_customer = Deadhead
        /\ ret.total_trip_time = TripAtRequest

\* C6 (amended): travel_time_to_customer is the entry at (location, pickup, hour,
\* day) and total_trip_time is the entry at (pickup, drop, hour2, day2), where
\* (hour2, day2) is the state's clock advanced by travel_time_to_customer.
C6_TripTimeAtArrivalClock ==
    (OtherLocationCall("get_different_pickup_time") /\ ArrivalInTable) =>
        /\ ~ret.raised
        /\ ret.travel_time_to_customer = Deadhead
        /\ ret.total_trip_time = TripAtArrival
        /\ <<ret.time_at_customer_location, ret.day_at_customer_location>> = ArrivalClock

C6_Witness ==
    /\ OtherLocationCall("get_different_pickup_time")
    /\ ArrivalInTable
    /\ ~ret.raised
    /\ Deadhead > 0
    /\ TripAtArrival # TripAtRequest
    /\ ret.total_trip_time = TripAtArrival

\* C7: every lookup of the travel-time table whose from-location or to-location
\* is outside 1..m, whose hour is outside 0..23 or whose day is outside 0..6
\* ends the call with an out-of-range error.
CellInDomain(cell) ==
    /\ cell[1] \in 1..hyperparameters.m
    /\ cell[2] \in 1..hyperparameters.m
    /\ cell[3] \in 0..(HoursInDay - 1)
    /\ cell[4] \in 0..(DaysInWeek - 1)

C7_DomainErrorsSurface ==
    (call.op \in {"get_same_pickup_time", "get_different_pickup_time",
                  "get_rewards_per_ride", "get_next_state"}) =>
        ((\E k \in DOMAIN ret.reads : ~CellInDomain(ret.reads[k])) => ret.raised)

\* C8: in any state of the state space and on any draws, the sampled requests
\* are (indices, actions) with as many indices as actions but one, at most 15
\* of them, the no-ride action last, every index designating an action other
\* than the last of the action space, and each action being the one its index
\* designates.
C8_RequestSamplingShape ==
    (call.op = "get_requests_per_location" /\ ValidState(call.state)) =>
        /\ ~ret.raised
        /\ Len(ret.allowed_action_index) = Len(ret.allowed_actions) - 1
        /\ Len(ret.allowed_action_index) <= 15
        /\ ret.allowed_actions[Len(ret.allowed_actions)] = NoRide
        /\ \A i \in DOMAIN ret.allowed_action_index :
               /\ ret.allowed_action_index[i] \in 0..(Len(action_space) - 2)
               /\ ret.allowed_actions[i] = action_space[ret.allowed_action_index[i] + 1]
               /\ ret.allowed_actions[i] # NoRide

\* C9: the action space has m*(m-1) + 1 pairwise distinct actions: every
\* <<pickup, drop>> over 1..m with pickup # drop, by pickup and then by drop,
\* and the no-ride action last and only there.
C9_ActionSpaceShape ==
    LET m == hyperparameters.m
        n == Len(action_space)
    IN  (m >= 2) =>
        /\ n = m * (m - 1) + 1
        /\ \A k, l \in 1..n : (k # l) => (action_space[k] # action_space[l])
        /\ {action_space[k] : k \in 1..(n - 1)} =
               {<<i, j>> : i \in 1..m, j \in 1..m} \ {<<i, i>> : i \in 1..m}
        /\ \A k \in 1..(n - 2) :
               \/ action_space[k][1] < action_space[k + 1][1]
               \/ /\ action_space[k][1] = action_space[k + 1][1]
                  /\ action_space[k][2] < action_space[k + 1][2]
        /\ action_space[n] = NoRide

C9_Witness ==
    /\ hyperparameters.m >= 3
    /\ action_space = initialize_action_space(hyperparameters)
    /\ Len(action_space) >= 7
    /\ action_space[1] = <<1, 2>>
    /\ action_space[3] = <<2, 1>>

\* C10: the clock (h, d) advanced by delta < 24 is ((h + delta) mod 24, d) when
\* h + delta < 24 and (h + delta - 24, (d + 1) mod 7) otherwise; so (23, 6) by 1
\* is (0, 0), (20, 3) by 5 is (1, 4), and advancing by 0 changes nothing.
C10_ClockWraparound ==
    (call.op = "calc_revised_time_day" /\ ValidState(call.state) /\ call.extra[1] < 24) =>
        LET h == call.state[2]
            d == call.state[3]
            delta == call.extra[1]
        IN  /\ ret.revised = IF h + delta < 24 THEN <<(h + delta) % 24, d>>
                             ELSE <<(h + delta) - 24, (d + 1) % 7>>
            /\ (delta = 0) => (ret.revised = <<h, d>>)
            /\ (h = 23 /\ d = 6 /\ delta = 1) => (ret.revised = <<0, 0>>)
            /\ (h = 20 /\ d = 3 /\ delta = 5) => (ret.revised = <<1, 4>>)

C10_Witness ==
    /\ call.op = "calc_revised_time_day"
    /\ call.state[2] = 20
    /\ call.state[3] = 3
    /\ call.extra = <<5>>
    /\ ret.revised = <<1, 4>>

\* C11: with table entries of whole hours below 24, every step made in a valid
\* state with an action of the action space returns a next state whose hour of
\* the week, 24*day' + hour', is (24*day + hour + elapsed) mod 168; and so, after
\* any number of steps, the hour of the week of the current state is that of
\* the initial state plus the sum of the elapsed times returned, mod 168.
C11_ElapsedAndClockAgree ==
    \/ /\ ValidCall("get_next_state") =>
              /\ ~ret.raised
              /\ 24 * ret.next_state[3] + ret.next_state[2] =
                     (24 * call.state[3] + call.state[2] + ret.elapsed) % 168
       /\ 24 * state[3] + state[2] = week_clock
    \/ ~EntriesAtMost(HoursInDay - 1)

C11_Witness ==
    /\ EntriesAtMost(HoursInDay - 1)
    /\ OtherLocationCall("get_next_state")
    /\ ~ret.raised
    /\ Deadhead > 0
    /\ TripAtArrival > 0
    /\ ret.elapsed = Deadhead + TripAtArrival
    /\ 24 * call.state[3] + call.state[2] + ret.elapsed >= 168
    /\ state = ret.next_state
    /\ state[3] = 0
    /\ week_clock = 24 * state[3] + state[2]

====
